---------------------------- MODULE Spec2Model ----------------------------
(***************************************************************************)
(* A model of the Evaporative Cooling controller of                        *)
(* src/EvaporativeCooling.cpp: the constructor's validation, the           *)
(* ComputeECScores loop, the two normalizing engine wrappers, the free     *)
(* energy fusion and the removal of the worst attributes.                  *)
(*                                                                         *)
(* Scores are doubles in the code.  Here the engines emit integer raw      *)
(* scores 0..MaxScore and every score is kept as an integer number of      *)
(* 1/Scale units, Scale being a common multiple of every possible range    *)
(* max-min, so that (s - min) / (max - min) is computed exactly.           *)
(*                                                                         *)
(* unsigned int is kept as a width: arithmetic is modulo 2^UIntBits (the   *)
(* build has 32 bits; the model scales the width down, the wrap-around     *)
(* behaviour is the same).                                                 *)
(*                                                                         *)
(* The two functions of src/FilesystemUtils.cpp are modelled on their own, *)
(* over file names that are sequences of characters.                       *)
(***************************************************************************)
EXTENDS Integers, Sequences, FiniteSets, TLC

\* ------------------------------------------------------------------ bounds
\* Largest raw score an engine emits.
MaxScore == 1
\* Largest fixed removal count (--ec-iter-remove-n) tried.
MaxRemove == 5
\* Width of unsigned int in the model.
UIntBits == 3
\* Iterations of the EC loop whose body is explored (the counter is unbounded).
MaxIter == 2
\* Raw scores handed to the normalizers alone run from -NormLow to NormHigh.
NormLow == 1
NormHigh == 2
\* Largest data set and largest --ec-iter-remove-percent tried when the
\* removal count alone is looked at.
MaxManyAttributes == 50
MaxPercent == 100
\* Longest file name handed to the file name utilities.
MaxNameLen == 4
\* Width of size_t in the model.
SizeBits == 4

\* ------------------------------------------------------- program constants
\* double temperature = 1.0;
Temperature == 1
\* Bits of the significand of a double.
DoubleMant == 53

\* ---------------------------------------------------------------- helpers
UIntMod == 2 ^ UIntBits

\* a - b in unsigned int arithmetic
USub(a, b) == (a - b + UIntMod) % UIntMod

RECURSIVE Gcd(_, _)
Gcd(a, b) == IF b = 0 THEN a ELSE Gcd(b, a % b)

RECURSIVE LcmUpTo(_)
LcmUpTo(n) == IF n <= 1 THEN 1 ELSE LET l == LcmUpTo(n - 1) IN (l * n) \div Gcd(l, n)

\* Largest difference between two raw scores.
MaxRange == IF MaxScore > NormLow + NormHigh THEN MaxScore ELSE NormLow + NormHigh

\* Number of score units in 1.0.
Scale == LcmUpTo(MaxRange)

\* The attribute names of the largest data set, in ascending string order.
AttrNames == <<"a", "b", "c">>

Attrs == {AttrNames[i] : i \in 1..Len(AttrNames)}

\* Position of a name in the string order (operator< on std::string).
NameRank(nm) == CHOOSE i \in 1..Len(AttrNames) : AttrNames[i] = nm

\* What a read past the end of a vector yields when it does not trap: bytes
\* that name no active attribute.
Garbage == [score |-> 0, name |-> "?"]

Range(s) == {s[i] : i \in 1..Len(s)}

NamesOf(s) == {s[i].name : i \in 1..Len(s)}

Bijections(n) == {p \in [1..n -> 1..n] : \A i, j \in 1..n : p[i] = p[j] => i = j}

\* All rearrangements of a sequence.
PermsOf(s) == {[i \in 1..Len(s) |-> s[p[i]]] : p \in Bijections(Len(s))}


scoresSortAsc(p1, p2) == p1.score < p2.score

scoresSortAscByName(p1, p2) == NameRank(p1.name) < NameRank(p2.name)

scoresSortDesc(p1, p2) == p1.score > p2.score

\* The comparator handed to std::sort, by its name.
Compare(comp, p1, p2) ==
  CASE comp = "scoresSortAsc" -> scoresSortAsc(p1, p2)
    [] comp = "scoresSortAscByName" -> scoresSortAscByName(p1, p2)
    [] comp = "scoresSortDesc" -> scoresSortDesc(p1, p2)

\* std::sort with comparator comp: the sort is not stable, so any rearrangement
\* that is ordered by comp may result.
StdSort(s, comp) ==
  {t \in PermsOf(s) : \A i \in 1..(Len(t) - 1) : ~Compare(comp, t[i + 1], t[i])}

\* x / y on doubles, for scores kept in 1/Scale units.
ScoreDiv(x, y) == (x * Scale) \div y

\* to_upper on the characters the option values use.
UpperOf(c) ==
  CASE c = "a" -> "A" [] c = "l" -> "L" [] c = "r" -> "R" [] c = "j" -> "J"
    [] c = "f" -> "F" [] c = "o" -> "O" [] OTHER -> c

to_upper(str) == [i \in 1..Len(str) |-> UpperOf(str[i])]

\* ------------------------------------------------------------ the engines
\* The raw output of a ranking engine that scores exactly the names in D:
\* any emission order, any raw scores.
EngineLists(D) ==
  LET n == Cardinality(D)
  IN  {[i \in 1..n |-> [score |-> f[i] * Scale, name |-> nm[i]]] :
         nm \in {q \in [1..n -> D] : \A i, j \in 1..n : q[i] = q[j] => i = j},
         f \in [1..n -> 0..MaxScore]}

\* What an engine may emit for the active attributes D: one score per active
\* attribute when it honours its contract, scores for any set of names when
\* it does not.
EngineOutputs(D, honours) ==
  IF honours THEN EngineLists(D)
  ELSE UNION {EngineLists(E) : E \in SUBSET Attrs}


\* ------------------------------------------------------------ normalizers
\* A scan that keeps the initial 0 as a candidate for the minimum and maximum.
RECURSIVE RJMinMax_ZeroSeeded(_, _, _, _)
RJMinMax_ZeroSeeded(s, lineNumber, minRJScore, maxRJScore) ==
  IF lineNumber > Len(s) THEN <<minRJScore, maxRJScore>>
  ELSE LET key == s[lineNumber].score
       IN  IF key < minRJScore THEN RJMinMax_ZeroSeeded(s, lineNumber + 1, key, maxRJScore)
           ELSE IF key > maxRJScore THEN RJMinMax_ZeroSeeded(s, lineNumber + 1, minRJScore, key)
           ELSE RJMinMax_ZeroSeeded(s, lineNumber + 1, minRJScore, maxRJScore)

\* The min/max scan of ReadRandomJungleScores: both start at 0, the first
\* line seeds both, later lines move one of them.
RECURSIVE RJMinMax(_, _, _, _)
RJMinMax(s, lineNumber, minRJScore, maxRJScore) ==
  IF lineNumber > Len(s) THEN <<minRJScore, maxRJScore>>
  ELSE LET key == s[lineNumber].score
       IN  IF lineNumber = 1 THEN RJMinMax(s, 2, key, key)
           ELSE IF key < minRJScore THEN RJMinMax(s, lineNumber + 1, key, maxRJScore)
           ELSE IF key > maxRJScore THEN RJMinMax(s, lineNumber + 1, minRJScore, key)
           ELSE RJMinMax(s, lineNumber + 1, minRJScore, maxRJScore)

\* rjScores after ReadRandomJungleScores has read the importance file s.
ReadRandomJungleScores(s) ==
  LET mm == RJMinMax(s, 1, 0, 0)
      minRJScore == mm[1]
      maxRJScore == mm[2]
      needsNormalization == minRJScore # maxRJScore
      rjRange == maxRJScore - minRJScore
  IN  [i \in 1..Len(s) |->
         IF needsNormalization
         THEN [score |-> ScoreDiv(s[i].score - minRJScore, rjRange), name |-> s[i].name]
         ELSE [score |-> s[i].score, name |-> s[i].name]]

\* The min/max scan of RunReliefF over a non-empty list, seeded from its
\* first entry.
RECURSIVE RFMinMax(_, _, _, _)
RFMinMax(s, i, minRFScore, maxRFScore) ==
  IF i > Len(s) THEN <<minRFScore, maxRFScore>>
  ELSE LET mn == IF s[i].score < minRFScore THEN s[i].score ELSE minRFScore
           mx == IF s[i].score > maxRFScore THEN s[i].score ELSE maxRFScore
       IN  RFMinMax(s, i + 1, mn, mx)

\* A normalizer that maps a list of equal scores to zeros.
NormalizeReliefF_ZeroOnDegenerate(s) ==
  LET mm == RFMinMax(s, 1, s[1].score, s[1].score)
      rfRange == mm[2] - mm[1]
  IN  [i \in 1..Len(s) |->
         [score |-> IF rfRange = 0 THEN 0 ELSE ScoreDiv(s[i].score - mm[1], rfRange),
          name |-> s[i].name]]

\* rfScores after the normalizing half of RunReliefF, for a non-empty s.
NormalizeReliefF(s) ==
  LET mm == RFMinMax(s, 1, s[1].score, s[1].score)
      minRFScore == mm[1]
      maxRFScore == mm[2]
      rfRange == maxRFScore - minRFScore
  IN  IF minRFScore = maxRFScore THEN s
      ELSE [i \in 1..Len(s) |->
              [score |-> ScoreDiv(s[i].score - minRFScore, rfRange), name |-> s[i].name]]

\* ----------------------------------------------------------------- fusion
\* The EC_ALL loop of ComputeFreeEnergy over the two lists as they stand
\* after their sorts: the i-th entry takes the name of rj[i].
FuseAll(rj, rf, temperature) ==
  [i \in 1..Len(rj) |->
     [score |-> rf[i].score + (temperature * rj[i].score), name |-> rj[i].name]]


\* ------------------------------------------------------------------ state
VARIABLES
  pc,                      \* where the program is
  initialAttributes,       \* the attribute names of the data set handed in
  paramsMap,               \* the program options (vm)
  contract,                \* whether the engines score exactly the active names
  dataset,                 \* the data set's active (unmasked) attribute names
  numTargetAttributes,
  algorithmType,
  numToRemovePerIteration,
  engines,                 \* the engines the constructor has initialized
  numWorkingAttributes,
  iteration,
  rjScores,
  rfScores,
  freeEnergyScores,
  evaporatedAttributes,
  ecScores,
  runState,                \* NONE, RUNNING, CONVERGED, STALLED or FAILED
  returned,                \* what ComputeECScores returned: "none", "true", "false"
  engineFailure,           \* the engines that have reported a failure
  outFiles,                \* the score files on disk: name and lines written
  writeOutcome,            \* what WriteAttributeScores gave its caller, and
                           \* whether it printed a message on the error stream
  fileName,                \* the file name handed to the file name utilities
  basename,                \* what GetFileBasename returned, once called
  extension                \* what GetFileExtension returned, once called

vars ==
  <<pc, initialAttributes, paramsMap, contract, dataset, numTargetAttributes,
    algorithmType, numToRemovePerIteration, engines, numWorkingAttributes,
    iteration, rjScores, rfScores, freeEnergyScores, evaporatedAttributes,
    ecScores, runState, returned, engineFailure, outFiles, writeOutcome,
    fileName, basename, extension>>

\* Values of --ec-algorithm-steps tried, as character sequences.
StepsValues ==
  {<<"a", "l", "l">>, <<"r", "j">>, <<"r", "F">>, <<"f", "o", "o">>}

\* Values of --ec-iter-remove-percent tried.
Percents == {34, 100}

\* An option is a set: empty when the option was not given (count() = 0),
\* else holding its value.
Given(opt) == opt # {}

ValueOf(opt) == CHOOSE v \in opt : TRUE

\* Dataset::NumAttributes(): the number of active attributes.
NumAttributes(ds) == Cardinality(ds)

\* Dataset::MaskRemoveAttribute(name): masks the name out; a name that is
\* not active leaves the data set as it is (and reports notFound).
MaskRemoveAttribute(ds, nm) == ds \ {nm}

\* ------------------------------------------------------ double arithmetic
\* A positive double is a record [m, x]: m its significand bits, most
\* significant first and starting with 1, x the exponent of the last bit of
\* m; its value is the number m spells times 2^x.  Zero has m = <<>>.
\* The bits of a natural number, most significant first.
RECURSIVE BitsOf(_)
BitsOf(k) == IF k = 0 THEN <<>> ELSE Append(BitsOf(k \div 2), k % 2)

\* The natural number the first i bits of a bit sequence spell.
RECURSIVE NatOf(_, _)
NatOf(b, i) == IF i = 0 THEN 0 ELSE 2 * NatOf(b, i - 1) + b[i]

\* The bit sequence of b + 1: the last 0 becomes 1 and the 1s after it 0; a
\* sequence of 1s only grows by one bit.
Incr(b) ==
  IF \A i \in 1..Len(b) : b[i] = 1
  THEN <<1>> \o [i \in 1..Len(b) |-> 0]
  ELSE LET j == CHOOSE i \in 1..Len(b) :
                  b[i] = 0 /\ \A h \in (i + 1)..Len(b) : b[h] = 1
       IN  [i \in 1..Len(b) |-> IF i < j THEN b[i] ELSE IF i = j THEN 1 ELSE 0]

\* Rounding to nearest, ties to even, of the exact value b * 2^x to a
\* significand of DoubleMant bits.
RoundBits(b, x) ==
  IF Len(b) <= DoubleMant THEN [m |-> b, x |-> x]
  ELSE LET keep == SubSeq(b, 1, DoubleMant)
           drop == SubSeq(b, DoubleMant + 1, Len(b))
           sticky == \E i \in 2..Len(drop) : drop[i] = 1
           up == drop[1] = 1 /\ (sticky \/ keep[DoubleMant] = 1)
           r == IF up THEN Incr(keep) ELSE keep
       IN  IF Len(r) > DoubleMant
           THEN [m |-> SubSeq(r, 1, DoubleMant), x |-> x + Len(drop) + 1]
           ELSE [m |-> r, x |-> x + Len(drop)]

\* The next count bits of r / den for r < den, followed by one bit that
\* tells whether anything is left after them.
RECURSIVE QuotBits(_, _, _)
QuotBits(r, den, count) ==
  IF count = 0 THEN <<IF r > 0 THEN 1 ELSE 0>>
  ELSE LET bit == IF 2 * r >= den THEN 1 ELSE 0
       IN  <<bit>> \o QuotBits(2 * r - bit * den, den, count - 1)

\* The exponent k with 2^k <= a / d < 2^(k+1), for a, d > 0.
RECURSIVE ExponentOf(_, _)
ExponentOf(a, d) ==
  IF a < d THEN ExponentOf(2 * a, d) - 1
  ELSE IF a >= 2 * d THEN ExponentOf(a, 2 * d) + 1
  ELSE 0

\* (double) a / (double) d for naturals a and d > 0: the quotient rounded.
DoubleDiv(a, d) ==
  IF a = 0 THEN [m |-> <<>>, x |-> 0]
  ELSE LET k == ExponentOf(a, d)
           num == IF k < 0 THEN a * 2 ^ (0 - k) ELSE a
           den == IF k > 0 THEN d * 2 ^ k ELSE d
       IN  RoundBits(<<1>> \o QuotBits(num - den, den, DoubleMant),
                     k - DoubleMant - 1)

\* The bits of (the first i bits of b) * n + c.
RECURSIVE MulBits(_, _, _, _)
MulBits(b, n, i, c) ==
  IF i = 0 THEN BitsOf(c)
  ELSE IF (b[i] * n + c) % 2 = 0
  THEN Append(MulBits(b, n, i - 1, (b[i] * n + c) \div 2), 0)
  ELSE Append(MulBits(b, n, i - 1, (b[i] * n + c) \div 2), 1)

\* v * (double) n for a double v and a natural n: the product rounded.
DoubleMul(v, n) ==
  IF v.m = <<>> \/ n = 0 THEN [m |-> <<>>, x |-> 0]
  ELSE RoundBits(MulBits(v.m, n, Len(v.m), 0), v.x)

\* (int) v for a double v >= 0: the fraction is cut off.
DoubleToInt(v) ==
  IF v.m = <<>> THEN 0
  ELSE IF v.x >= 0 THEN NatOf(v.m, Len(v.m)) * 2 ^ v.x
  ELSE IF 0 - v.x >= Len(v.m) THEN 0
  ELSE NatOf(v.m, Len(v.m) + v.x)

\* (int) (((double) percent / 100.0) * n)
PercentOf(percent, n) == DoubleToInt(DoubleMul(DoubleDiv(percent, 100), n))

\* The option maps tried: exactly one of the two removal options is given.
ParamsMaps ==
  {pm \in [target : 0..(Len(AttrNames) + 1),
           steps : {{}} \cup {{v} : v \in StepsValues},
           removeN : {{}} \cup {{k} : k \in 0..MaxRemove},
           removePercent : {{}} \cup {{q} : q \in Percents}] :
     Given(pm.removeN) # Given(pm.removePercent)}

\* The members before the constructor has run.
InitMembers ==
  /\ pc = "new"
  /\ dataset = initialAttributes
  /\ numTargetAttributes = 0
  /\ algorithmType = "EC_UNSET"
  /\ numToRemovePerIteration = 0
  /\ engines = {}
  /\ numWorkingAttributes = 0
  /\ iteration = 0
  /\ rjScores = <<>>
  /\ rfScores = <<>>
  /\ freeEnergyScores = <<>>
  /\ evaporatedAttributes = <<>>
  /\ ecScores = <<>>
  /\ runState = "NONE"
  /\ returned = "none"
  /\ engineFailure = {}
  /\ outFiles = {}
  /\ writeOutcome = [returns |-> "none", message |-> FALSE]
  /\ fileName = <<>>
  /\ basename = {}
  /\ extension = {}

\* Any data set of one to three attributes, any option map, engines that
\* score exactly the active attributes.
Init ==
  /\ initialAttributes \in {{AttrNames[i] : i \in 1..n} : n \in 1..Len(AttrNames)}
  /\ paramsMap \in ParamsMaps
  /\ contract = TRUE
  /\ InitMembers

\* The option maps tried with engines off their contract: a target of two
\* with both engines, or a target of one with Random Jungle alone, which
\* takes two prune rounds.
FaultyParamsMaps ==
  {pm \in ParamsMaps :
     IF pm.target = 2
     THEN pm.steps = {<<"a", "l", "l">>} /\ pm.removeN \in {{1}, {2}}
     ELSE pm.target = 1 /\ pm.steps = {<<"r", "j">>} /\ pm.removeN = {1}}

\* The full data set, a fixed removal count, and engines that may score any
\* set of names.
InitFaulty ==
  /\ initialAttributes = Attrs
  /\ paramsMap \in FaultyParamsMaps
  /\ contract = FALSE
  /\ InitMembers

\* ------------------------------------------------------------ constructor
\* The algorithm type the constructor derives from the option value.
AlgorithmOf(ecAlgParam) ==
  IF ecAlgParam = <<"A", "L", "L">> THEN "EC_ALL"
  ELSE IF ecAlgParam = <<"R", "J">> THEN "EC_RJ"
  ELSE IF ecAlgParam = <<"R", "F">> THEN "EC_RF"
  ELSE "exit"

\* Whether the constructor's check of --ec-num-target lets the value pass.
TargetAccepted(target, numAttr) == ~(target < 1) /\ ~(target > numAttr)

\* The engines the constructor initializes for an algorithm type.
EnginesFor(alg) ==
  (IF alg \in {"EC_ALL", "EC_RJ"} THEN {"RJ"} ELSE {})
    \cup (IF alg \in {"EC_ALL", "EC_RF"} THEN {"RF"} ELSE {})

\* Whether the constructor ends the process (exit) for these options: on the
\* target count first, then on the algorithm steps.
ConstructorExits(pm, numAttr) ==
  IF ~TargetAccepted(pm.target, numAttr) THEN TRUE
  ELSE IF Given(pm.steps) THEN AlgorithmOf(to_upper(ValueOf(pm.steps))) = "exit"
  ELSE FALSE

\* EvaporativeCooling::EvaporativeCooling.  A member the constructor does not
\* assign (algorithmType without --ec-algorithm-steps, numToRemovePerIteration
\* without either removal option) holds an indeterminate value.
Construct ==
  /\ pc = "new"
  /\ IF ConstructorExits(paramsMap, NumAttributes(dataset))
     THEN /\ pc' = "exited"
          /\ UNCHANGED <<numTargetAttributes, algorithmType,
                         numToRemovePerIteration, engines, runState>>
     ELSE /\ pc' = "constructed"
          /\ numTargetAttributes' = paramsMap.target
          /\ \E alg \in IF Given(paramsMap.steps)
                        THEN {AlgorithmOf(to_upper(ValueOf(paramsMap.steps)))}
                        ELSE {"EC_ALL", "EC_RJ", "EC_RF", "EC_UNSET"} :
               /\ algorithmType' = alg
               /\ engines' = EnginesFor(alg)
          /\ numToRemovePerIteration' \in
               IF Given(paramsMap.removePercent)
               THEN {PercentOf(ValueOf(paramsMap.removePercent), NumAttributes(dataset))}
               ELSE IF Given(paramsMap.removeN) THEN {ValueOf(paramsMap.removeN)}
               ELSE 0..MaxRemove
          /\ runState' = "RUNNING"
  /\ UNCHANGED <<outFiles, writeOutcome, fileName, basename, extension,
                 initialAttributes, paramsMap, contract, dataset,
                 numWorkingAttributes, iteration, rjScores, rfScores,
                 freeEnergyScores, evaporatedAttributes, ecScores, returned,
                 engineFailure>>


\* -------------------------------------------------------- ComputeECScores
\* The first step of an iteration for an algorithm type.
StepAfterLoopTest(alg) ==
  IF alg \in {"EC_ALL", "EC_RJ"} THEN "rj"
  ELSE IF alg \in {"EC_ALL", "EC_RF"} THEN "rf"
  ELSE "fuse"

\* A step after Random Jungle that never goes to Relief-F.
StepAfterRJ_SkipsRF(alg) == "fuse"

\* The step after Random Jungle.
StepAfterRJ(alg) == IF alg \in {"EC_ALL", "EC_RF"} THEN "rf" ELSE "fuse"

\* The entry of ComputeECScores, up to the loop.
EnterComputeECScores ==
  /\ pc = "constructed"
  /\ numWorkingAttributes' = NumAttributes(dataset)
  /\ IF numWorkingAttributes' <= numTargetAttributes
     THEN /\ pc' = "done"
          /\ returned' = "false"
          /\ runState' = "FAILED"
          /\ UNCHANGED iteration
     ELSE /\ pc' = "loop"
          /\ iteration' = 1
          /\ UNCHANGED <<returned, runState>>
  /\ UNCHANGED <<outFiles, writeOutcome, fileName, basename, extension,
                 initialAttributes, paramsMap, contract, dataset,
                 numTargetAttributes, algorithmType, numToRemovePerIteration,
                 engines, rjScores, rfScores, freeEnergyScores,
                 evaporatedAttributes, ecScores, engineFailure>>

\* while(numWorkingAttributes > numTargetAttributes)
LoopTest ==
  /\ pc = "loop"
  /\ numWorkingAttributes > numTargetAttributes => iteration <= MaxIter
  /\ IF numWorkingAttributes > numTargetAttributes
     THEN /\ pc' = StepAfterLoopTest(algorithmType)
          /\ UNCHANGED runState
     ELSE /\ pc' = "final"
          /\ runState' = "CONVERGED"
  /\ UNCHANGED <<outFiles, writeOutcome, fileName, basename, extension,
                 initialAttributes, paramsMap, contract, dataset,
                 numTargetAttributes, algorithmType, numToRemovePerIteration,
                 engines, numWorkingAttributes, iteration, rjScores, rfScores,
                 freeEnergyScores, evaporatedAttributes, ecScores, returned,
                 engineFailure>>

\* What the Random Jungle run leaves behind: a failure, or an importance file.
RJOutcomes(D, honours) ==
  {[ok |-> FALSE, scores |-> <<>>]}
    \cup {[ok |-> TRUE, scores |-> l] : l \in EngineOutputs(D, honours)}

\* The Random Jungle step of an iteration: RunRandomJungle, which ends in
\* ReadRandomJungleScores.
RunRandomJungle ==
  /\ pc = "rj"
  /\ \E out \in RJOutcomes(dataset, contract) :
       IF ~out.ok
       THEN /\ pc' = "done"
            /\ returned' = "false"
            /\ runState' = "FAILED"
            /\ engineFailure' = engineFailure \cup {"RJ"}
            /\ UNCHANGED rjScores
       ELSE /\ pc' = StepAfterRJ(algorithmType)
            /\ rjScores' = ReadRandomJungleScores(out.scores)
            /\ UNCHANGED <<returned, runState, engineFailure>>
  /\ UNCHANGED <<outFiles, writeOutcome, fileName, basename, extension,
                 initialAttributes, paramsMap, contract, dataset,
                 numTargetAttributes, algorithmType, numToRemovePerIteration,
                 engines, numWorkingAttributes, iteration, rfScores,
                 freeEnergyScores, evaporatedAttributes, ecScores>>

\* What a Relief-F call leaves behind: it reports success and GetScores()
\* holds its scores, or it reports failure and GetScores() is empty or still
\* holds the scores of the call before.
RFOutcomes(D, honours, before) ==
  {[ok |-> TRUE, scores |-> l] : l \in EngineOutputs(D, honours)}
    \cup {[ok |-> FALSE, scores |-> l] : l \in {<<>>, before}}

\* The Relief-F step of an iteration: RunReliefF.  The engine's return value
\* is not looked at, and RunReliefF returns true on every path.  Reading
\* rfScores[0] of an empty list is undefined: the run traps, or goes on with
\* the empty list.
RunReliefF ==
  /\ pc = "rf"
  /\ \E out \in RFOutcomes(dataset, contract, rfScores) :
       \E trap \in (IF out.scores = <<>> THEN BOOLEAN ELSE {FALSE}) :
         /\ engineFailure' = IF out.ok THEN engineFailure ELSE engineFailure \cup {"RF"}
         /\ IF trap
            THEN /\ pc' = "crashed"
                 /\ rfScores' = out.scores
            ELSE /\ pc' = "fuse"
                 /\ rfScores' = IF out.scores = <<>> THEN <<>>
                                ELSE NormalizeReliefF(out.scores)
  /\ UNCHANGED <<outFiles, writeOutcome, fileName, basename, extension,
                 initialAttributes, paramsMap, contract, dataset,
                 numTargetAttributes, algorithmType, numToRemovePerIteration,
                 engines, numWorkingAttributes, iteration, rjScores,
                 freeEnergyScores, evaporatedAttributes, ecScores, runState,
                 returned>>


\* A size check that only catches a longer Random Jungle list.
SizeCheckFails_OneSided(alg, rj, rf) == alg = "EC_ALL" /\ Len(rj) > Len(rf)

\* A size check applied in every mode.
SizeCheckFails_AnyMode(alg, rj, rf) == Len(rj) # Len(rf)

\* The size check that opens ComputeFreeEnergy: true when the call fails on it.
SizeCheckFails(alg, rj, rf) == alg = "EC_ALL" /\ Len(rj) # Len(rf)

\* The list left in the order the engine emitted it.
SortedByName_Unsorted(s) == {s}

\* The two lists after their sorts by name in the EC_ALL case.
SortedByName(s) == StdSort(s, "scoresSortAscByName")

\* ComputeFreeEnergy(temperature), with temperature = 1.0.
ComputeFreeEnergy ==
  /\ pc = "fuse"
  /\ IF SizeCheckFails(algorithmType, rjScores, rfScores)
     THEN /\ pc' = "done"
          /\ returned' = "false"
          /\ runState' = "FAILED"
          /\ UNCHANGED <<rjScores, rfScores, freeEnergyScores>>
     ELSE IF algorithmType = "EC_ALL"
     THEN /\ \E rj \in SortedByName(rjScores), rf \in SortedByName(rfScores) :
               /\ rjScores' = rj
               /\ rfScores' = rf
               /\ freeEnergyScores' = FuseAll(rj, rf, Temperature)
          /\ pc' = "prune"
          /\ UNCHANGED <<returned, runState>>
     ELSE IF algorithmType = "EC_RJ"
     THEN /\ freeEnergyScores' = rjScores
          /\ pc' = "prune"
          /\ UNCHANGED <<rjScores, rfScores, returned, runState>>
     ELSE IF algorithmType = "EC_RF"
     THEN /\ freeEnergyScores' = rfScores
          /\ pc' = "prune"
          /\ UNCHANGED <<rjScores, rfScores, returned, runState>>
     ELSE /\ freeEnergyScores' = <<>>
          /\ pc' = "done"
          /\ returned' = "false"
          /\ runState' = "FAILED"
          /\ UNCHANGED <<rjScores, rfScores>>
  /\ UNCHANGED <<outFiles, writeOutcome, fileName, basename, extension,
                 initialAttributes, paramsMap, contract, dataset,
                 numTargetAttributes, algorithmType, numToRemovePerIteration,
                 engines, numWorkingAttributes, iteration,
                 evaporatedAttributes, ecScores, engineFailure>>

\* ---------------------------------------------------------------- pruning
\* The removal count the loop asks for in this iteration.
RequestedRemoval(pm, perIteration, ds) ==
  IF Given(pm.removePercent)
  THEN PercentOf(ValueOf(pm.removePercent), NumAttributes(ds))
  ELSE perIteration

\* The loop's clamp: if((numWorkingAttributes - numToRemove) < numTargetAttributes)
\* on unsigned int.
ClampedRemoval(numWorking, numToRemove, numTarget) ==
  IF USub(numWorking, numToRemove) < numTarget
  THEN USub(numWorking, numTarget)
  ELSE numToRemove

\* The clamp of RemoveWorstAttributes: numToRemoveAdj.
AdjustedRemoval(numAttr, numToRemove, numTarget) ==
  IF USub(numAttr, numToRemove) < numTarget
  THEN USub(numAttr, numTarget)
  ELSE numToRemove

\* The entries freeEnergyScores[0 .. count-1] read by the removal loop; a
\* read past the end that does not trap yields Garbage.
WorstEntries(sorted, count) ==
  [i \in 1..count |-> IF i <= Len(sorted) THEN sorted[i] ELSE Garbage]

\* The data set after masking out every entry of a list, in order.
RECURSIVE MaskAll(_, _, _)
MaskAll(ds, entries, i) ==
  IF i > Len(entries) THEN ds
  ELSE MaskAll(MaskRemoveAttribute(ds, entries[i].name), entries, i + 1)

\* The removal step of an iteration: the computation of numToRemove, the
\* break, RemoveWorstAttributes and the bookkeeping after it.
RemoveWorst ==
  /\ pc = "prune"
  /\ LET requested == RequestedRemoval(paramsMap, numToRemovePerIteration, dataset)
         numToRemove == ClampedRemoval(numWorkingAttributes, requested,
                                       numTargetAttributes)
         numToRemoveAdj == AdjustedRemoval(NumAttributes(dataset), numToRemove,
                                           numTargetAttributes)
     IN  IF numToRemove < 1
         THEN /\ pc' = "final"
              /\ runState' = "STALLED"
              /\ UNCHANGED <<dataset, numWorkingAttributes, iteration,
                             freeEnergyScores, evaporatedAttributes>>
         ELSE \E sorted \in StdSort(freeEnergyScores, "scoresSortAsc") :
              \E trap \in (IF numToRemoveAdj > Len(sorted) THEN BOOLEAN ELSE {FALSE}) :
                /\ freeEnergyScores' = sorted
                /\ IF trap
                   THEN /\ pc' = "crashed"
                        /\ evaporatedAttributes' = evaporatedAttributes \o sorted
                        /\ dataset' = MaskAll(dataset, sorted, 1)
                        /\ UNCHANGED <<numWorkingAttributes, iteration, runState>>
                   ELSE /\ pc' = "loop"
                        /\ evaporatedAttributes' =
                             evaporatedAttributes \o WorstEntries(sorted, numToRemoveAdj)
                        /\ dataset' = MaskAll(dataset, WorstEntries(sorted, numToRemoveAdj), 1)
                        /\ numWorkingAttributes' = USub(numWorkingAttributes, numToRemove)
                        /\ iteration' = iteration + 1
                        /\ UNCHANGED runState
  /\ UNCHANGED <<outFiles, writeOutcome, fileName, basename, extension,
                 initialAttributes, paramsMap, contract, numTargetAttributes,
                 algorithmType, numToRemovePerIteration, engines, rjScores,
                 rfScores, ecScores, returned, engineFailure>>

\* The first count entries of the list sorted descending, as copied into
\* ecScores.
TopEntries(sorted, count) ==
  [i \in 1..count |-> IF i <= Len(sorted) THEN sorted[i] ELSE Garbage]

\* The end of ComputeECScores after the loop: the sort, the resize and the
\* copy.  Copying more entries than the list holds reads past its end.
Finish ==
  /\ pc = "final"
  /\ \E sorted \in StdSort(freeEnergyScores, "scoresSortDesc") :
     \E trap \in (IF numTargetAttributes > Len(sorted) THEN BOOLEAN ELSE {FALSE}) :
       /\ freeEnergyScores' = sorted
       /\ IF trap
          THEN /\ pc' = "crashed"
               /\ ecScores' = sorted
               /\ UNCHANGED returned
          ELSE /\ pc' = "done"
               /\ ecScores' = TopEntries(sorted, numTargetAttributes)
               /\ returned' = "true"
  /\ UNCHANGED <<outFiles, writeOutcome, fileName, basename, extension,
                 initialAttributes, paramsMap, contract, dataset,
                 numTargetAttributes, algorithmType, numToRemovePerIteration,
                 engines, numWorkingAttributes, iteration, rjScores, rfScores,
                 evaporatedAttributes, runState, engineFailure>>

\* ------------------------------------------------------ writing the scores
\* File names are sequences of name parts: appending a suffix to a string
\* is concatenation.
BaseFilenames == {<<"out">>, <<"out", ".ec">>}

\* The switch of WriteAttributeScores: the suffix appended for each
\* analysis type, and none for its default branch.
ResultsSuffix(alg) ==
  CASE alg = "EC_ALL" -> <<".ec">>
    [] alg = "EC_RJ"  -> <<".ec", ".rj">>
    [] alg = "EC_RF"  -> <<".ec", ".rf">>
    [] OTHER          -> <<>>

\* Whether the switch leaves through one of its three cases.
TypeDetermined(alg) == alg \in {"EC_ALL", "EC_RJ", "EC_RF"}

\* The lines PrintAttributeScores sends to the stream, one per entry of
\* ecScores in list order: the score, then the name.
PrintAttributeScores(scores) ==
  [i \in 1..Len(scores) |-> <<scores[i].score, scores[i].name>>]

\* The files on disk after a file of this name has been created or
\* truncated, and these lines written to it.
FileWritten(files, filename, lines) ==
  {f \in files : f.name # filename} \cup {[name |-> filename, lines |-> lines]}

\* WriteAttributeScores(baseFilename), a void method, called once the run
\* has returned. In the default branch of the switch it prints a message on
\* the error stream and returns, as it returns after a write: its caller is
\* given nothing in either case. Otherwise it opens the file: a failed open
\* sets the stream's failbit, which bad() does not test, so the lines are
\* sent to a failed stream and the method returns as after a success.
WriteAttributeScores ==
  /\ pc = "done"
  /\ \E baseFilename \in BaseFilenames, opened \in BOOLEAN :
       LET resultsFilename == baseFilename \o ResultsSuffix(algorithmType)
       IN  IF ~TypeDetermined(algorithmType)
           THEN /\ writeOutcome' = [returns |-> "void", message |-> TRUE]
                /\ UNCHANGED outFiles
           ELSE /\ writeOutcome' = [returns |-> "void", message |-> FALSE]
                /\ outFiles' = (IF opened
                                THEN FileWritten(outFiles, resultsFilename,
                                                 PrintAttributeScores(ecScores))
                                ELSE outFiles)
  /\ pc' = "written"
  /\ UNCHANGED <<fileName, basename, extension,
                 initialAttributes, paramsMap, contract, dataset,
                 numTargetAttributes, algorithmType, numToRemovePerIteration,
                 engines, numWorkingAttributes, iteration, rjScores, rfScores,
                 freeEnergyScores, evaporatedAttributes, ecScores, runState,
                 returned, engineFailure>>

Next ==
  \/ Construct
  \/ EnterComputeECScores
  \/ LoopTest
  \/ RunRandomJungle
  \/ RunReliefF
  \/ ComputeFreeEnergy
  \/ RemoveWorst
  \/ Finish
  \/ WriteAttributeScores

Spec == Init /\ [][Next]_vars


\* The same program with engines that break their contract.
SpecFaulty == InitFaulty /\ [][Next]_vars

\* ------------------------------------------------- the normalizers alone
\* The raw lists a normalizer may be handed: any non-empty set of names, any
\* order, any raw scores from -NormLow to NormHigh.
RawLists ==
  UNION {{[i \in 1..Cardinality(E) |-> [score |-> f[i] * Scale, name |-> nm[i]]] :
            nm \in {q \in [1..Cardinality(E) -> E] :
                      \A i, j \in 1..Cardinality(E) : q[i] = q[j] => i = j},
            f \in [1..Cardinality(E) -> (0 - NormLow)..NormHigh]} :
         E \in (SUBSET Attrs) \ {{}}}

\* The first iteration of a run in mode EC_ALL, stopped where a normalizer
\* holds the raw scores: in ReadRandomJungleScores after its read loop
\* (rjScores holds the file's scores), or in RunReliefF after GetScores().
InitNorm ==
  /\ initialAttributes = Attrs
  /\ paramsMap = [target |-> 1, steps |-> {<<"a", "l", "l">>},
                  removeN |-> {1}, removePercent |-> {}]
  /\ contract = TRUE
  /\ dataset = initialAttributes
  /\ numTargetAttributes = 1
  /\ algorithmType = "EC_ALL"
  /\ numToRemovePerIteration = 1
  /\ engines = {"RJ", "RF"}
  /\ numWorkingAttributes = NumAttributes(dataset)
  /\ iteration = 1
  /\ pc \in {"rjraw", "rfraw"}
  /\ \E raw \in RawLists :
       /\ rjScores = (IF pc = "rjraw" THEN raw ELSE <<>>)
       /\ rfScores = (IF pc = "rfraw" THEN raw ELSE <<>>)
  /\ freeEnergyScores = <<>>
  /\ evaporatedAttributes = <<>>
  /\ ecScores = <<>>
  /\ runState = "RUNNING"
  /\ returned = "none"
  /\ engineFailure = {}
  /\ outFiles = {}
  /\ writeOutcome = [returns |-> "none", message |-> FALSE]
  /\ fileName = <<>>
  /\ basename = {}
  /\ extension = {}

\* The rest of ReadRandomJungleScores and of RunRandomJungle after the read
\* loop: both return true and the iteration goes on.
NormalizeRJScores ==
  /\ pc = "rjraw"
  /\ rjScores' = ReadRandomJungleScores(rjScores)
  /\ pc' = StepAfterRJ(algorithmType)
  /\ UNCHANGED <<outFiles, writeOutcome, fileName, basename, extension,
                 initialAttributes, paramsMap, contract, dataset,
                 numTargetAttributes, algorithmType, numToRemovePerIteration,
                 engines, numWorkingAttributes, iteration, rfScores,
                 freeEnergyScores, evaporatedAttributes, ecScores, runState,
                 returned, engineFailure>>

\* The rest of RunReliefF after GetScores(), for a non-empty list: it
\* returns true and the iteration goes on to ComputeFreeEnergy.
NormalizeRFScores ==
  /\ pc = "rfraw"
  /\ rfScores' = NormalizeReliefF(rfScores)
  /\ pc' = "fuse"
  /\ UNCHANGED <<outFiles, writeOutcome, fileName, basename, extension,
                 initialAttributes, paramsMap, contract, dataset,
                 numTargetAttributes, algorithmType, numToRemovePerIteration,
                 engines, numWorkingAttributes, iteration, rjScores,
                 freeEnergyScores, evaporatedAttributes, ecScores, runState,
                 returned, engineFailure>>

NextNorm ==
  \/ NormalizeRJScores
  \/ NormalizeRFScores

SpecNorm == InitNorm /\ [][NextNorm]_vars

\* ---------------------------------------------- the removal count alone
\* A data set of up to MaxManyAttributes attributes, numbered instead of
\* named, a percentage removal setting, and the program up to the first
\* test of the loop: no engine runs on these data sets.
InitPercent ==
  /\ initialAttributes \in {1..n : n \in 1..MaxManyAttributes}
  /\ paramsMap \in {[target |-> 1, steps |-> {<<"a", "l", "l">>},
                      removeN |-> {}, removePercent |-> {q}] : q \in 0..MaxPercent}
  /\ contract = TRUE
  /\ InitMembers

NextPercent ==
  \/ Construct
  \/ EnterComputeECScores

SpecPercent == InitPercent /\ [][NextPercent]_vars

\* ------------------------------------------------ the file name utilities
\* size_t arithmetic is modulo 2^SizeBits; string::npos is its largest value.
SizeMod == 2 ^ SizeBits

npos == SizeMod - 1

\* The characters of the file names tried, and the file names.
NameChars == {"a", "b", "."}

FileNames == UNION {[1..n -> NameChars] : n \in 0..MaxNameLen}

\* string::find(c): the 0-based position of the first c, or npos.
find(str, c) ==
  IF \E i \in 1..Len(str) : str[i] = c
  THEN (CHOOSE i \in 1..Len(str) : str[i] = c /\ \A j \in 1..(i - 1) : str[j] # c) - 1
  ELSE npos

\* string::substr(pos, count) for pos <= size(): the characters from
\* position pos on, count of them or as many as there are.
substr(str, pos, count) ==
  LET rlen == IF count < Len(str) - pos THEN count ELSE Len(str) - pos
  IN  SubSeq(str, pos + 1, pos + rlen)

\* GetFileBasename(fileName)
GetFileBasename(name) == substr(name, 0, find(name, "."))

\* GetFileExtension(fileName): pos + 1 and fileName.size() - 1 are size_t.
GetFileExtension(name) ==
  substr(name, (find(name, ".") + 1) % SizeMod, (Len(name) - 1 + SizeMod) % SizeMod)

\* A caller with a file name, before it has called either function.
InitFile ==
  /\ pc = "file"
  /\ fileName \in FileNames
  /\ basename = {}
  /\ extension = {}
  /\ initialAttributes = Attrs
  /\ paramsMap \in {pm \in ParamsMaps : pm.target = 1 /\ pm.removeN = {1}
                                          /\ pm.steps = {<<"a", "l", "l">>}}
  /\ contract = TRUE
  /\ dataset = initialAttributes
  /\ numTargetAttributes = 0
  /\ algorithmType = "EC_UNSET"
  /\ numToRemovePerIteration = 0
  /\ engines = {}
  /\ numWorkingAttributes = 0
  /\ iteration = 0
  /\ rjScores = <<>>
  /\ rfScores = <<>>
  /\ freeEnergyScores = <<>>
  /\ evaporatedAttributes = <<>>
  /\ ecScores = <<>>
  /\ runState = "NONE"
  /\ returned = "none"
  /\ engineFailure = {}
  /\ outFiles = {}
  /\ writeOutcome = [returns |-> "none", message |-> FALSE]

\* A call of GetFileBasename(fileName).
CallGetFileBasename ==
  /\ pc = "file"
  /\ basename = {}
  /\ basename' = {GetFileBasename(fileName)}
  /\ UNCHANGED <<pc, fileName, extension, outFiles, writeOutcome,
                 initialAttributes, paramsMap, contract, dataset,
                 numTargetAttributes, algorithmType, numToRemovePerIteration,
                 engines, numWorkingAttributes, iteration, rjScores, rfScores,
                 freeEnergyScores, evaporatedAttributes, ecScores, runState,
                 returned, engineFailure>>

\* A call of GetFileExtension(fileName).
CallGetFileExtension ==
  /\ pc = "file"
  /\ extension = {}
  /\ extension' = {GetFileExtension(fileName)}
  /\ UNCHANGED <<pc, fileName, basename, outFiles, writeOutcome,
                 initialAttributes, paramsMap, contract, dataset,
                 numTargetAttributes, algorithmType, numToRemovePerIteration,
                 engines, numWorkingAttributes, iteration, rjScores, rfScores,
                 freeEnergyScores, evaporatedAttributes, ecScores, runState,
                 returned, engineFailure>>

NextFile ==
  \/ CallGetFileBasename
  \/ CallGetFileExtension

SpecFile == InitFile /\ [][NextFile]_vars

\* ================================================================= claims
\* ComputeECScores has returned to its caller.
HasReturned == pc \in {"done", "written"}

\* The positions inside the loop of ComputeECScores.
InLoop == pc \in {"loop", "rj", "rf", "fuse", "prune"}

\* The configuration is one the controller is specified to accept.
AcceptedConfig ==
  /\ paramsMap.target >= 1
  /\ paramsMap.target < NumAttributes(initialAttributes)

Min(a, b) == IF a < b THEN a ELSE b

\* C1 (as claimed): for every accepted configuration and engines that do not
\* fail, in every step taken inside the loop of ComputeECScores the working
\* attribute count does not grow and does not drop below the target count.
C1_MonotonicShrinkage ==
  [][(InLoop /\ AcceptedConfig /\ engineFailure = {})
       => /\ numWorkingAttributes' <= numWorkingAttributes
          /\ numWorkingAttributes' >= numTargetAttributes]_vars

\* C2 (as claimed): in every prune round over a fused list that scores the
\* working set, the number of attributes actually removed from the working
\* set is min(r, w - target), r being the requested count and w the working
\* count, so the working count stays >= target.
C2_PruningClamp ==
  [][(pc = "prune" /\ AcceptedConfig
        /\ numWorkingAttributes = NumAttributes(dataset)
        /\ NamesOf(freeEnergyScores) = dataset)
       => LET r == RequestedRemoval(paramsMap, numToRemovePerIteration, dataset)
              w == numWorkingAttributes
          IN  /\ NumAttributes(dataset) - NumAttributes(dataset')
                   = Min(r, w - numTargetAttributes)
              /\ NumAttributes(dataset') >= numTargetAttributes]_vars

\* The terminal states of a run.
Terminal == {"CONVERGED", "STALLED", "FAILED"}

\* The positions at which the process has ended or ComputeECScores has
\* returned: no step of the run follows them.
Stopped == pc \in {"exited", "crashed", "done", "written"}

\* C3 (as claimed): every run of ComputeECScores whose engines report no
\* failure goes on until ComputeECScores has returned, and it then is in
\* exactly one of CONVERGED, STALLED, FAILED: the program never stops at
\* another place.
C3_Termination ==
  (runState # "NONE" /\ engineFailure = {} /\ Stopped)
    => HasReturned /\ runState \in Terminal /\ returned # "none"

\* ecScores is ordered descending by score.
Descending(s) == \A i \in 1..(Len(s) - 1) : s[i].score >= s[i + 1].score

\* C4 (as claimed): whenever a run without engine failures ends CONVERGED or
\* STALLED, ecScores holds exactly numTargetAttributes entries, they are the
\* leading entries of the final fused list, and they are ordered descending
\* by fused score.
C4_FinalOutput ==
  (HasReturned /\ runState \in {"CONVERGED", "STALLED"} /\ engineFailure = {})
    => /\ Len(ecScores) = numTargetAttributes
       /\ Len(freeEnergyScores) >= numTargetAttributes
       /\ ecScores = SubSeq(freeEnergyScores, 1, numTargetAttributes)
       /\ Descending(ecScores)

\* ceil(a / b) for b > 0
CeilDiv(a, b) == (a + b - 1) \div b

\* C5 (as claimed): with a fixed removal count k >= 1, an accepted target,
\* mode BOTH and engines that never fail, after j rounds min(j*k, n-t)
\* attributes have been removed (k per round, the remainder in the last),
\* the run takes ceil((n-t)/k) rounds, ends CONVERGED with the working count
\* equal to the target, and never stalls or stops elsewhere.
C5_FixedSchedule ==
  (/\ Given(paramsMap.removeN)
   /\ AcceptedConfig
   /\ paramsMap.steps = {<<"a", "l", "l">>}
   /\ engineFailure = {}
   /\ pc \notin {"new", "constructed"})
    => LET k == ValueOf(paramsMap.removeN)
           n == NumAttributes(initialAttributes)
           t == paramsMap.target
           rounds == iteration - 1
       IN  k >= 1
             => /\ pc # "crashed"
                /\ runState \in {"RUNNING", "CONVERGED"}
                /\ pc \in {"loop", "final", "done", "written"}
                     => /\ Len(evaporatedAttributes) = Min(rounds * k, n - t)
                        /\ NumAttributes(dataset) = n - Min(rounds * k, n - t)
                        /\ numWorkingAttributes = NumAttributes(dataset)
                /\ pc \in {"final", "done", "written"}
                     => /\ runState = "CONVERGED"
                        /\ numWorkingAttributes = t
                        /\ rounds = CeilDiv(n - t, k)

\* C6 (as claimed): a target count >= the number of attributes of the data
\* set is rejected by the constructor, before any engine is initialized, and
\* no run is started.
C6_TargetTooLargeRejected ==
  (pc # "new" /\ paramsMap.target >= NumAttributes(initialAttributes))
    => pc = "exited" /\ engines = {} /\ runState = "NONE"

\* The option values that are a known mode, whatever their case.
KnownStepsValues == {<<"a", "l", "l">>, <<"r", "j">>, <<"r", "F">>}

\* C7 (as claimed): the constructor ends the process, with no engine
\* initialized and no run started, when the target count is < 1 or the mode
\* string is none of all, rj, rf; and after every construction that succeeds
\* algorithmType is one of EC_ALL, EC_RJ, EC_RF.
C7_ConstructionValidation ==
  pc # "new"
    => /\ (\/ paramsMap.target < 1
           \/ (Given(paramsMap.steps) /\ ValueOf(paramsMap.steps) \notin KnownStepsValues))
            => pc = "exited" /\ engines = {} /\ runState = "NONE"
       /\ pc # "exited" => algorithmType \in {"EC_ALL", "EC_RJ", "EC_RF"}

\* The score a list holds for a name.
ScoreOf(list, nm) == list[CHOOSE i \in 1..Len(list) : list[i].name = nm].score

\* No name occurs twice in the list.
DistinctNames(list) == Cardinality(NamesOf(list)) = Len(list)

C9_SizeMismatchFails ==
  [][(pc = "fuse" /\ algorithmType = "EC_ALL" /\ Len(rjScores) # Len(rfScores))
       => /\ pc' = "done"
          /\ returned' = "false"
          /\ runState' = "FAILED"
          /\ freeEnergyScores' = freeEnergyScores
          /\ evaporatedAttributes' = evaporatedAttributes
          /\ dataset' = dataset
          /\ numWorkingAttributes' = numWorkingAttributes
          /\ ecScores' = ecScores]_vars

\* C9's case: a run has ended FAILED on two non-empty lists of different
\* length, neither engine having reported a failure.
C9_Witness ==
  /\ pc = "done"
  /\ runState = "FAILED"
  /\ algorithmType = "EC_ALL"
  /\ engineFailure = {}
  /\ Len(rjScores) > 0
  /\ Len(rfScores) > 0
  /\ Len(rjScores) # Len(rfScores)
  /\ evaporatedAttributes = <<>>

\* C10 (as claimed): in mode BOTH, when the two lists do not hold the same
\* set of names, fusion fails, the run ends FAILED and no fused list is built.
C10_NameMismatchFails ==
  [][(pc = "fuse" /\ algorithmType = "EC_ALL"
        /\ NamesOf(rjScores) # NamesOf(rfScores))
       => /\ runState' = "FAILED"
          /\ freeEnergyScores' = freeEnergyScores]_vars

\* C11: in mode MAIN_EFFECT_ONLY (EC_RJ) ComputeFreeEnergy succeeds and the
\* fused list is the normalized main-effect list entry for entry; in mode
\* INTERACTION_ONLY (EC_RF) it succeeds and the fused list is the normalized
\* interaction list entry for entry; the other engine's list, whatever its
\* size, is left as it is and the run is not failed.
C11_SingleEngineFusion ==
  [][(pc = "fuse" /\ algorithmType \in {"EC_RJ", "EC_RF"})
       => /\ pc' = "prune"
          /\ runState' = "RUNNING"
          /\ returned' = "none"
          /\ rjScores' = rjScores
          /\ rfScores' = rfScores
          /\ algorithmType = "EC_RJ" => freeEnergyScores' = rjScores
          /\ algorithmType = "EC_RF" => freeEnergyScores' = rfScores]_vars

\* C11's case: a single-engine fusion has run over three attributes while
\* the other engine's list has another size, and two fused scores differ.
C11_Witness ==
  /\ pc = "prune"
  /\ algorithmType \in {"EC_RJ", "EC_RF"}
  /\ Len(freeEnergyScores) = 3
  /\ Len(rjScores) # Len(rfScores)
  /\ freeEnergyScores = (IF algorithmType = "EC_RJ" THEN rjScores ELSE rfScores)
  /\ \E i, j \in 1..3 : freeEnergyScores[i].score # freeEnergyScores[j].score

\* The list a normalizer is about to work on.
RawList == IF pc = "rjraw" THEN rjScores ELSE rfScores

\* The true minimum and maximum score of a non-empty list.
MinScoreOf(s) == CHOOSE m \in {s[i].score : i \in 1..Len(s)} :
                   \A i \in 1..Len(s) : m <= s[i].score

MaxScoreOf(s) == CHOOSE m \in {s[i].score : i \in 1..Len(s)} :
                   \A i \in 1..Len(s) : m >= s[i].score

\* out is in with every score s replaced by (s - mn) / (mx - mn), scores being
\* counted in 1/Scale units: names, positions and the order by score are
\* kept, every score lies in [0,1], the minimum maps to 0, the maximum to 1.
IsNormalized(in, out, mn, mx) ==
  /\ Len(out) = Len(in)
  /\ \A i \in 1..Len(in) :
       /\ out[i].name = in[i].name
       /\ out[i].score * (mx - mn) = (in[i].score - mn) * Scale
       /\ out[i].score >= 0
       /\ out[i].score <= Scale
       /\ in[i].score = mn => out[i].score = 0
       /\ in[i].score = mx => out[i].score = Scale
  /\ \A i, j \in 1..Len(in) :
       in[i].score < in[j].score <=> out[i].score < out[j].score

\* C12: for every list with min < max, ReadRandomJungleScores and RunReliefF
\* replace each score s by (s - min) / (max - min) with the true minimum and
\* maximum of the list: scores end in [0,1], the minimum at 0, the maximum
\* at 1, names, positions and the order by score unchanged.
C12_NormalizationNonDegenerate ==
  [][(pc \in {"rjraw", "rfraw"} /\ MinScoreOf(RawList) < MaxScoreOf(RawList))
       => LET out == IF pc = "rjraw" THEN rjScores' ELSE rfScores'
          IN  IsNormalized(RawList, out, MinScoreOf(RawList), MaxScoreOf(RawList))]_vars

\* C12's case: a normalizer has run on three raw scores and left 0, a value
\* strictly between 0 and 1, and 1.
C12_Witness ==
  /\ pc \in {"rf", "fuse"}
  /\ LET out == IF pc = "rf" THEN rjScores ELSE rfScores
     IN  /\ Len(out) = 3
         /\ \E i, j, k \in 1..3 :
              /\ out[i].score = 0
              /\ out[j].score = Scale
              /\ out[k].score > 0
              /\ out[k].score < Scale

\* C13: for every list whose scores are all equal (a single entry included),
\* both normalizers leave the list as it is, report no error, and the
\* iteration goes on towards fusion.
C13_NormalizationDegenerate ==
  [][(pc \in {"rjraw", "rfraw"} /\ MinScoreOf(RawList) = MaxScoreOf(RawList))
       => /\ pc = "rjraw" => rjScores' = rjScores /\ pc' = "rf"
          /\ pc = "rfraw" => rfScores' = rfScores /\ pc' = "fuse"
          /\ runState' = "RUNNING"
          /\ returned' = "none"
          /\ engineFailure' = {}]_vars

\* C13's case: a normalizer has run on a list of equal scores that are not 0,
\* of one entry or of three.
C13_Witness ==
  /\ pc \in {"rf", "fuse"}
  /\ LET out == IF pc = "rf" THEN rjScores ELSE rfScores
     IN  /\ Len(out) \in {1, 3}
         /\ \A i \in 1..Len(out) : out[i].score = NormHigh * Scale

\* C14 (as claimed): once either engine has reported a failure, the run is
\* FAILED, ComputeECScores has returned false without any further step, and
\* ecScores has not been written.
C14_EngineFailureFails ==
  engineFailure # {}
    => /\ HasReturned
       /\ runState = "FAILED"
       /\ returned = "false"
       /\ ecScores = <<>>

\* C15 (as claimed): when, in a prune round that reads only entries the fused
\* list holds, MaskRemoveAttribute reports notFound for an entry (fewer names
\* leave the working set than entries are appended to the audit list), the
\* run becomes FAILED and ComputeECScores returns false.
C15_RemovalFailureFails ==
  [][(pc = "prune" /\ pc' # "crashed"
        /\ Len(evaporatedAttributes') - Len(evaporatedAttributes)
             <= Len(freeEnergyScores)
        /\ NumAttributes(dataset) - NumAttributes(dataset')
             < Len(evaporatedAttributes') - Len(evaporatedAttributes))
       => /\ runState' = "FAILED"
          /\ returned' = "false"]_vars

\* C16 (as claimed): when the clamped removal count of an iteration is 0
\* while the working count is above the target, the loop ends in that
\* iteration as STALLED with the working set, the working count and the audit
\* list unchanged; and the STALLED run then writes its output, the first
\* numTargetAttributes entries of the fused list sorted descending, and
\* returns true.
C16_Stalled ==
  [][/\ (/\ pc = "prune"
         /\ numWorkingAttributes > numTargetAttributes
         /\ ClampedRemoval(numWorkingAttributes,
                           RequestedRemoval(paramsMap, numToRemovePerIteration, dataset),
                           numTargetAttributes) = 0)
          => /\ pc' = "final"
             /\ runState' = "STALLED"
             /\ dataset' = dataset
             /\ numWorkingAttributes' = numWorkingAttributes
             /\ evaporatedAttributes' = evaporatedAttributes
     /\ (pc = "final" /\ runState = "STALLED")
          => /\ pc' = "done"
             /\ returned' = "true"
             /\ runState' = "STALLED"
             /\ freeEnergyScores' \in PermsOf(freeEnergyScores)
             /\ Descending(freeEnergyScores')
             /\ Len(freeEnergyScores') >= numTargetAttributes
             /\ ecScores' = SubSeq(freeEnergyScores', 1, numTargetAttributes)]_vars

\* C17 (as claimed): with a percentage removal setting p, the removal count
\* an iteration asks for is floor(p/100 * w), w being the working attribute
\* count of that iteration.
C17_PercentageSchedule ==
  (InLoop /\ Given(paramsMap.removePercent))
    => RequestedRemoval(paramsMap, numToRemovePerIteration, dataset)
         = (ValueOf(paramsMap.removePercent) * numWorkingAttributes) \div 100

\* The entries a step has appended to the audit list.
Appended == SubSeq(evaporatedAttributes', Len(evaporatedAttributes) + 1,
                   Len(evaporatedAttributes'))

\* C18 (as claimed): the audit list only grows at its end; a prune round of
\* a run whose engines have reported no failure appends exactly the
\* attributes it removes from the working set, lowest fused score first,
\* each with the fused score it has in that round, and no appended score is
\* above the fused score of an attribute the round keeps.
C18_AuditList ==
  [][/\ Len(evaporatedAttributes') >= Len(evaporatedAttributes)
     /\ SubSeq(evaporatedAttributes', 1, Len(evaporatedAttributes))
          = evaporatedAttributes
     /\ pc # "prune" => evaporatedAttributes' = evaporatedAttributes
     /\ (pc = "prune" /\ engineFailure = {})
          => /\ NamesOf(Appended) = dataset \ dataset'
             /\ Len(Appended) = Cardinality(dataset \ dataset')
             /\ \A i \in 1..Len(Appended) :
                  /\ Appended[i] \in Range(freeEnergyScores)
                  /\ \A j \in i..Len(Appended) :
                       Appended[i].score <= Appended[j].score
                  /\ \A e \in Range(freeEnergyScores) :
                       e.name \in dataset' => Appended[i].score <= e.score]_vars

\* C19 (as claimed): the working set never gains a name, and in a run whose
\* engines have reported no failure the working set and the names of the
\* audit list are disjoint, together they are the initial attribute set, and
\* no name is twice in the audit list.
C19_WorkingSetPartition ==
  [][/\ dataset' \subseteq dataset
     /\ engineFailure' = {}
          => /\ dataset' \cap NamesOf(evaporatedAttributes') = {}
             /\ dataset' \cup NamesOf(evaporatedAttributes') = initialAttributes
             /\ DistinctNames(evaporatedAttributes')]_vars


\* C20 (as claimed): WriteAttributeScores names its file by the base name
\* and a suffix that no other of the three analysis types uses; with an
\* undetermined analysis type it gives its caller an error and writes no
\* file; and it never changes ecScores.
C20_WriteScores ==
  [][(pc = "done" /\ pc' = "written")
       => /\ TypeDetermined(algorithmType)
               => \A f \in outFiles' \ outFiles :
                    \E base \in BaseFilenames :
                      /\ f.name = base \o ResultsSuffix(algorithmType)
                      /\ \A other \in {"EC_ALL", "EC_RJ", "EC_RF"} \ {algorithmType} :
                           f.name # base \o ResultsSuffix(other)
          /\ ~TypeDetermined(algorithmType)
               => /\ writeOutcome'.returns = "error"
                  /\ outFiles' = outFiles
          /\ ecScores' = ecScores]_vars

\* The analysis type runs Random Jungle, the main-effect engine.
IncludesRJ == algorithmType \in {"EC_ALL", "EC_RJ"}

\* The analysis type runs Relief-F, the interaction engine.
IncludesRF == algorithmType \in {"EC_ALL", "EC_RF"}

\* The steps of an iteration that the claim allows after each position: the
\* main-effect engine if the type includes it, then the interaction engine
\* if the type includes it, then fusion, then the removal count and the
\* prune; a step may also end the run or the process.
StepsAllowedAfter(at) ==
  CASE at = "loop"  -> {IF IncludesRJ THEN "rj" ELSE IF IncludesRF THEN "rf" ELSE "fuse",
                        "final"}
    [] at = "rj"    -> {IF IncludesRF THEN "rf" ELSE "fuse", "done"}
    [] at = "rf"    -> {"fuse", "done", "crashed"}
    [] at = "fuse"  -> {"prune", "done"}
    [] at = "prune" -> {"loop", "final", "done", "crashed"}
    [] OTHER        -> {}

\* C21: in every iteration the steps follow one another in the order
\* Random Jungle (if the type includes it), Relief-F (if the type includes
\* it), fusion, removal; an engine runs only if the type includes it and
\* only once before the iteration counter moves on, which only the removal
\* step does; and once the run is CONVERGED, STALLED or FAILED no engine,
\* fusion or removal step is taken.
C21_StepOrdering ==
  [][/\ InLoop => pc' \in StepsAllowedAfter(pc)
     /\ pc' = "rj" => IncludesRJ /\ pc = "loop"
     /\ pc' = "rf" => IncludesRF /\ pc = (IF IncludesRJ THEN "rj" ELSE "loop")
     /\ pc' = "fuse" => pc = (IF IncludesRF THEN "rf"
                               ELSE IF IncludesRJ THEN "rj" ELSE "loop")
     /\ pc' = "prune" => pc = "fuse"
     /\ (InLoop /\ pc # "prune") => iteration' = iteration
     /\ (pc = "loop" /\ pc' # "final") => runState = "RUNNING"
     /\ runState \in Terminal => ~InLoop /\ pc' \notin {"loop", "rj", "rf", "fuse", "prune"}
    ]_vars

\* C21's case: the second iteration of a run with both engines has come to
\* its removal step.
C21_Witness ==
  /\ pc = "prune"
  /\ iteration = 2
  /\ algorithmType = "EC_ALL"
  /\ runState = "RUNNING"
  /\ engineFailure = {}

\* C22 (as claimed): the iteration counter is 1 when the loop is entered and
\* never decreases; a removal step increments it when the run remains
\* RUNNING, that is when the working count is still above the target, and
\* leaves it alone on the round that reaches the target, so that at the end
\* it counts the iterations whose body was entered.
C22_IterationIndex ==
  [][/\ (pc = "constructed" /\ pc' = "loop") => iteration' = 1
     /\ iteration' >= iteration
     /\ (pc = "prune" /\ pc' = "loop" /\ engineFailure = {}
           /\ numWorkingAttributes' <= NumAttributes(initialAttributes))
          => iteration' = (IF numWorkingAttributes' > numTargetAttributes
                           THEN iteration + 1 ELSE iteration)]_vars

\* The lists the analysis type uses, as they stand after a step.
ListsUsed ==
  (IF IncludesRJ THEN {rjScores'} ELSE {}) \cup (IF IncludesRF THEN {rfScores'} ELSE {})
    \cup {freeEnergyScores'}

\* C23 (as claimed): when the fuse step of an iteration has ended with a
\* fused list that is not empty, in a run whose working count is the data
\* set's count of attributes, each list the analysis type uses holds
\* exactly one entry per attribute of the working set the iteration started
\* with, the data set not having changed since, and so no entry of an
\* earlier iteration and no attribute evaporated earlier.
C23_IterationScopedLists ==
  [][(pc = "fuse" /\ pc' = "prune" /\ freeEnergyScores' # <<>>
        /\ numWorkingAttributes = NumAttributes(dataset))
       => \A list \in ListsUsed :
            /\ NamesOf(list) = dataset
            /\ Len(list) = NumAttributes(dataset)
            /\ NamesOf(list) \cap NamesOf(evaporatedAttributes) = {}]_vars

\* The names of a list come in strictly ascending order.
AscendingNames(list) ==
  \A i \in 1..(Len(list) - 1) : scoresSortAscByName(list[i], list[i + 1])

\* C24 (as claimed): for each of the three analysis types, in a run whose
\* engines report no failure, the list ComputeFreeEnergy leaves holds one
\* entry per attribute of the data set, in ascending order of attribute
\* name, whatever the order of the engines' lists.
C24_FusedListByName ==
  [][(pc = "fuse" /\ pc' = "prune" /\ engineFailure = {})
       => /\ NamesOf(freeEnergyScores') = dataset
          /\ Len(freeEnergyScores') = NumAttributes(dataset)
          /\ AscendingNames(freeEnergyScores')]_vars

\* C25 (as claimed): when a run without engine failures, whose working count
\* is the data set's count of attributes, has ended CONVERGED or STALLED,
\* every attribute named in ecScores is still in the data set and none of
\* them is in the audit list, whatever order the two sorts gave to entries
\* of equal score.
C25_OutputInWorkingSet ==
  (/\ HasReturned
   /\ runState \in {"CONVERGED", "STALLED"}
   /\ engineFailure = {}
   /\ numWorkingAttributes = NumAttributes(dataset))
    => /\ NamesOf(ecScores) \subseteq dataset
       /\ NamesOf(ecScores) \cap NamesOf(evaporatedAttributes) = {}

\* C26 (as claimed): in a run without engine failures, every call of
\* RemoveWorstAttributes has an adjusted removal count no larger than the
\* fused list, so the removal loop reads inside it, and the final copy of
\* numTargetAttributes entries reads inside it too.
C26_ReadsInBounds ==
  (engineFailure = {})
    => /\ pc = "prune"
         => LET numToRemove ==
                  ClampedRemoval(numWorkingAttributes,
                                 RequestedRemoval(paramsMap, numToRemovePerIteration,
                                                  dataset),
                                 numTargetAttributes)
            IN  numToRemove >= 1
                  => AdjustedRemoval(NumAttributes(dataset), numToRemove,
                                     numTargetAttributes) <= Len(freeEnergyScores)
       /\ pc = "final" => numTargetAttributes <= Len(freeEnergyScores)
       /\ pc # "crashed"

\* C27 (as claimed): in a run without engine failures, at every test of the
\* loop condition the working count equals the data set's count of active
\* attributes and the initial count less the length of the audit list; and
\* at every removal step the clamp of RemoveWorstAttributes leaves the count
\* the loop has clamped as it is.
C27_WorkingCountInSync ==
  (engineFailure = {})
    => /\ pc = "loop"
         => /\ numWorkingAttributes = NumAttributes(dataset)
            /\ numWorkingAttributes =
                 NumAttributes(initialAttributes) - Len(evaporatedAttributes)
       /\ pc = "prune"
         => LET numToRemove ==
                  ClampedRemoval(numWorkingAttributes,
                                 RequestedRemoval(paramsMap, numToRemovePerIteration,
                                                  dataset),
                                 numTargetAttributes)
            IN  AdjustedRemoval(NumAttributes(dataset), numToRemove,
                                numTargetAttributes) = numToRemove

\* The file name holds a '.'.
HasDot == \E i \in 1..Len(fileName) : fileName[i] = "."

\* The position of the first '.' of a file name that holds one.
FirstDot ==
  CHOOSE i \in 1..Len(fileName) :
    fileName[i] = "." /\ \A j \in 1..(i - 1) : fileName[j] # "."

\* C28 (as claimed): for a file name that holds a '.', GetFileBasename
\* returns the part before the first '.' and GetFileExtension the part after
\* it, so that basename, ".", extension put together are the file name; for
\* a file name without '.', the basename is the whole name and the
\* extension is empty.
C28_FileNameParts ==
  /\ Given(basename)
       => ValueOf(basename) = (IF HasDot THEN SubSeq(fileName, 1, FirstDot - 1)
                               ELSE fileName)
  /\ Given(extension)
       => ValueOf(extension) = (IF HasDot
                                THEN SubSeq(fileName, FirstDot + 1, Len(fileName))
                                ELSE <<>>)
  /\ (HasDot /\ Given(basename) /\ Given(extension))
       => ValueOf(basename) \o <<".">> \o ValueOf(extension) = fileName

=============================================================================
